---- MODULE Spec2Model ----
(***************************************************************************)
(* Tide chain selection of combinedFinal.py: get_extreme_in_window and     *)
(* select_tide_chain over the data frame process_excel returns.            *)
(*                                                                         *)
(* A data frame is a sequence of rows [t |-> Date Time, v |-> Modified     *)
(* value]; a row is named by its index label (1..Len after reset_index).   *)
(* Date Time is in whole hours.  Modified value is in units of 1e-6, so    *)
(* that the absolute tolerance 1e-6 of np.isclose is the integer 1.        *)
(***************************************************************************)
EXTENDS Integers, Sequences, FiniteSets, TLC

\* ---- bounds of the model ----
MaxLen == 5          \* rows of the frame handed to select_tide_chain
MaxDupLen == 2       \* rows of such a frame when a Date Time may repeat
MaxFindLen == 3      \* rows of the frame handed to a lone get_extreme_in_window
MaxTime == 4         \* Date Time ranges over 0..MaxTime hours
MaxGap == 2          \* gap_hours ranges over 0..MaxGap
MaxTol == 1          \* tolerance_hours ranges over 0..MaxTol

\* ---- program constants ----
ATolMicro == 1           \* np.isclose(..., atol=1e-6), in units of 1e-6
RTolInverse == 100000    \* np.isclose's default rtol=1e-5, as 1/rtol

NoneRow == 0             \* get_extreme_in_window's "return None"
RaisedValueError == -1   \* get_extreme_in_window's "raise ValueError"

Times == 0..MaxTime
\* 0.200000, 0.200002 and 0.500000
Values == {200000, 200002, 500000}
FindValues == {200000, 500000}
Directions == {"forward", "backward", "sideways"}
TideTypes == {"high", "low", "mid"}

VARIABLES df, gap_hours, tolerance_hours,
          pc, anchor_path, main_high, main_low, H2, L3,
          L_minus1, H_minus2, L_minus3, high_tides, low_tides, result,
          call

vars == <<df, gap_hours, tolerance_hours, pc, anchor_path, main_high,
          main_low, H2, L3, L_minus1, H_minus2, L_minus3, high_tides,
          low_tides, result, call>>

chainVars == <<pc, anchor_path, main_high, main_low, H2, L3, L_minus1,
               H_minus2, L_minus3, high_tides, low_tides, result>>

Abs(x) == IF x < 0 THEN -x ELSE x

\* ---- process_excel: the frame is sorted by Date Time and re-indexed ----
\* gapmin = 1: a measurement series, every Date Time once;
\* gapmin = 0: a sorted frame in which a Date Time may repeat.
RECURSIVE SortedFrames(_, _, _)
SortedFrames(n, vals, gapmin) ==
    IF n = 0 THEN {<<>>}
    ELSE LET shorter == SortedFrames(n - 1, vals, gapmin)
             rows == [t : Times, v : vals]
         IN  {Append(p[1], p[2]) :
                 p \in {q \in shorter \X rows :
                          n = 1 \/ q[1][n - 1].t + gapmin <= q[2].t}}

Frames(maxlen, vals, gapmin) ==
    UNION {SortedFrames(n, vals, gapmin) : n \in 0..maxlen}

\* ---- get_extreme_in_window ----
\* variant: the window opens one hour early
start_time_early(base_time, direction, gap, tol) ==
    IF direction = "forward" THEN base_time + (gap - tol) - 1
                             ELSE base_time - (gap + tol) - 1

start_time(base_time, direction, gap, tol) ==
    IF direction = "forward" THEN base_time + (gap - tol)
                             ELSE base_time - (gap + tol)

end_time(base_time, direction, gap, tol) ==
    IF direction = "forward" THEN base_time + (gap + tol)
                             ELSE base_time - (gap - tol)

\* variant: the window's end is left out
candidate_df_open_end(d, base_time, direction, gap, tol) ==
    {i \in DOMAIN d : /\ d[i].t >= start_time(base_time, direction, gap, tol)
                      /\ d[i].t < end_time(base_time, direction, gap, tol)}

candidate_df(d, base_time, direction, gap, tol) ==
    {i \in DOMAIN d : /\ d[i].t >= start_time(base_time, direction, gap, tol)
                      /\ d[i].t <= end_time(base_time, direction, gap, tol)}

\* variant: the label of the last occurrence of the maximum
idxmax_last(d, c) ==
    CHOOSE i \in c : /\ \A j \in c : d[j].v <= d[i].v
                     /\ \A j \in c : d[j].v = d[i].v => i >= j

\* Series.idxmax / idxmin: the label of the first occurrence of the extreme
idxmax(d, c) ==
    CHOOSE i \in c : /\ \A j \in c : d[j].v <= d[i].v
                     /\ \A j \in c : d[j].v = d[i].v => i <= j

idxmin(d, c) ==
    CHOOSE i \in c : /\ \A j \in c : d[j].v >= d[i].v
                     /\ \A j \in c : d[j].v = d[i].v => i <= j

get_extreme_in_window(d, base_time, direction, tide_type, gap, tol) ==
    IF direction \notin {"forward", "backward"} THEN RaisedValueError
    ELSE LET c == candidate_df(d, base_time, direction, gap, tol)
         IN  IF c = {} THEN NoneRow
             ELSE IF tide_type = "high" THEN idxmax(d, c)
             ELSE IF tide_type = "low" THEN idxmin(d, c)
             ELSE RaisedValueError

\* ---- select_tide_chain ----
\* df["Modified value"].min() of a non-empty frame
absolute_low(d) ==
    CHOOSE m \in {d[i].v : i \in DOMAIN d} : \A i \in DOMAIN d : m <= d[i].v

\* np.isclose(a, b, atol=1e-6): |a - b| <= atol + rtol * |b|, rtol = 1e-5
isclose(a, b) == Abs(a - b) - ATolMicro <= Abs(b) \div RTolInverse

\* df.sort_values(by="Modified value", ascending=False): the sort is not
\* stable, so rows of equal value come in any order
RECURSIVE DescendingOrders(_, _)
DescendingOrders(d, rows) ==
    IF rows = {} THEN {<<>>}
    ELSE UNION {{<<i>> \o o : o \in DescendingOrders(d, rows \ {i})} :
                  i \in {k \in rows : \A j \in rows : d[j].v <= d[k].v}}

candidate_low(d, i, gap, tol) ==
    get_extreme_in_window(d, d[i].t, "forward", "low", gap, tol)

\* the for loop over candidates.iterrows(): the position of the first
\* candidate that pairs with the absolute low, 0 when the loop ends unbroken
RECURSIVE ScanCandidates(_, _, _, _, _)
ScanCandidates(d, candidates, k, gap, tol) ==
    IF k > Len(candidates) THEN 0
    ELSE LET low == candidate_low(d, candidates[k], gap, tol)
         IN  IF low # NoneRow /\ isclose(d[low].v, absolute_low(d))
             THEN k
             ELSE ScanCandidates(d, candidates, k + 1, gap, tol)

NoResult == [status |-> "pending", high_tides_df |-> <<>>, low_tides_df |-> <<>>]
NoCall == [made |-> FALSE, base_time |-> 0, direction |-> "forward",
           tide_type |-> "low", extreme_row |-> NoneRow]

Init ==
    /\ df \in Frames(MaxLen, Values, 1) \cup Frames(MaxDupLen, Values, 0)
    /\ gap_hours \in 0..MaxGap
    /\ tolerance_hours \in 0..MaxTol
    /\ pc = "anchor"
    /\ anchor_path = "none"
    /\ main_high = NoneRow
    /\ main_low = NoneRow
    /\ H2 = NoneRow
    /\ L3 = NoneRow
    /\ L_minus1 = NoneRow
    /\ H_minus2 = NoneRow
    /\ L_minus3 = NoneRow
    /\ high_tides = <<>>
    /\ low_tides = <<>>
    /\ result = NoResult
    /\ call = NoCall

\* variant: the missing first row is swallowed and the empty chain returned
iloc0_outcome_swallowed(candidates) ==
    IF Len(candidates) = 0 THEN "returned" ELSE "ok"

\* variant: the fallback takes the last candidate, as of an ascending sort
iloc_last(candidates) == candidates[Len(candidates)]

\* candidates.iloc[0]: the first row; IndexError when the frame has no row
iloc0_outcome(candidates) == IF Len(candidates) = 0 THEN "IndexError" ELSE "ok"

iloc0(candidates) == candidates[1]

\* lines 86-104: the anchor pair, by the loop's break or by the fallback
SelectAnchor ==
    /\ pc = "anchor"
    /\ \E candidates \in DescendingOrders(df, DOMAIN df) :
          LET k == ScanCandidates(df, candidates, 1, gap_hours, tolerance_hours)
          IN  IF k # 0
              THEN /\ main_high' = candidates[k]
                   /\ main_low' = candidate_low(df, candidates[k], gap_hours,
                                                tolerance_hours)
                   /\ anchor_path' = "paired"
                   /\ pc' = "forward"
                   /\ result' = result
              ELSE IF iloc0_outcome(candidates) # "ok"
              THEN /\ result' = [result EXCEPT
                                   !.status = iloc0_outcome(candidates)]
                   /\ pc' = "done"
                   /\ anchor_path' = "fallback"
                   /\ UNCHANGED <<main_high, main_low>>
              ELSE /\ main_high' = iloc0(candidates)
                   /\ main_low' = get_extreme_in_window(df,
                                      df[iloc0(candidates)].t, "forward", "low",
                                      gap_hours, tolerance_hours)
                   /\ anchor_path' = "fallback"
                   /\ pc' = "forward"
                   /\ result' = result
    /\ UNCHANGED <<df, gap_hours, tolerance_hours, H2, L3, L_minus1, H_minus2,
                   L_minus3, high_tides, low_tides, call>>

\* lines 106-114: H2 after L1 (the main low), L3 after H2
L1 == main_low

ExtendForward ==
    /\ pc = "forward"
    /\ LET h2 == IF L1 # NoneRow
                 THEN get_extreme_in_window(df, df[L1].t, "forward", "high",
                                            gap_hours, tolerance_hours)
                 ELSE NoneRow
       IN  /\ H2' = h2
           /\ L3' = IF h2 # NoneRow
                    THEN get_extreme_in_window(df, df[h2].t, "forward", "low",
                                               gap_hours, tolerance_hours)
                    ELSE NoneRow
    /\ pc' = "backward"
    /\ UNCHANGED <<df, gap_hours, tolerance_hours, anchor_path, main_high,
                   main_low, L_minus1, H_minus2, L_minus3, high_tides,
                   low_tides, result, call>>

\* variant: the backward extension nested under "if L1 is not None"
ExtendBackward_UnderForward ==
    /\ pc = "backward"
    /\ LET l1 == IF L1 # NoneRow
                 THEN get_extreme_in_window(df, df[main_high].t, "backward",
                                            "low", gap_hours, tolerance_hours)
                 ELSE NoneRow
           h2 == IF l1 # NoneRow
                 THEN get_extreme_in_window(df, df[l1].t, "backward", "high",
                                            gap_hours, tolerance_hours)
                 ELSE NoneRow
       IN  /\ L_minus1' = l1
           /\ H_minus2' = h2
           /\ L_minus3' = IF h2 # NoneRow
                          THEN get_extreme_in_window(df, df[h2].t, "backward",
                                       "low", gap_hours, tolerance_hours)
                          ELSE NoneRow
    /\ pc' = "assemble"
    /\ UNCHANGED <<df, gap_hours, tolerance_hours, anchor_path, main_high,
                   main_low, H2, L3, high_tides, low_tides, result, call>>

\* lines 116-125: L_minus1 before the main high, H_minus2, L_minus3
ExtendBackward ==
    /\ pc = "backward"
    /\ LET l1 == get_extreme_in_window(df, df[main_high].t, "backward", "low",
                                       gap_hours, tolerance_hours)
           h2 == IF l1 # NoneRow
                 THEN get_extreme_in_window(df, df[l1].t, "backward", "high",
                                            gap_hours, tolerance_hours)
                 ELSE NoneRow
       IN  /\ L_minus1' = l1
           /\ H_minus2' = h2
           /\ L_minus3' = IF h2 # NoneRow
                          THEN get_extreme_in_window(df, df[h2].t, "backward",
                                       "low", gap_hours, tolerance_hours)
                          ELSE NoneRow
    /\ pc' = "assemble"
    /\ UNCHANGED <<df, gap_hours, tolerance_hours, anchor_path, main_high,
                   main_low, H2, L3, high_tides, low_tides, result, call>>

\* [event for event in [...] if event is not None]
filter_present(events) == SelectSeq(events, LAMBDA e : e # NoneRow)

\* variant: sorted with ascending=False
RECURSIVE sort_values_descending(_, _)
sort_values_descending(d, rows) ==
    IF rows = <<>> THEN <<>>
    ELSE LET n == Len(rows)
             r == rows[n]
             front == sort_values_descending(d, SubSeq(rows, 1, n - 1))
             keep == Cardinality({k \in 1..(n - 1) : d[front[k]].t >= d[r].t})
         IN  SubSeq(front, 1, keep) \o <<r>> \o SubSeq(front, keep + 1, n - 1)

\* DataFrame.sort_values(by="Date Time") of at most four rows: an insertion
\* sort, which keeps rows of equal Date Time in their order
RECURSIVE sort_values(_, _)
sort_values(d, rows) ==
    IF rows = <<>> THEN <<>>
    ELSE LET n == Len(rows)
             r == rows[n]
             front == sort_values(d, SubSeq(rows, 1, n - 1))
             keep == Cardinality({k \in 1..(n - 1) : d[front[k]].t <= d[r].t})
         IN  SubSeq(front, 1, keep) \o <<r>> \o SubSeq(front, keep + 1, n - 1)

\* pd.DataFrame([]) has no "Date Time" column: sort_values raises KeyError
frame_sort_raises(rows) == rows = <<>>

\* lines 127-133
Assemble ==
    /\ pc = "assemble"
    /\ LET highs == filter_present(<<H_minus2, main_high, H2>>)
           lows == filter_present(<<L_minus3, L_minus1, L1, L3>>)
       IN  /\ high_tides' = highs
           /\ low_tides' = lows
           /\ result' = IF frame_sort_raises(highs) \/ frame_sort_raises(lows)
                        THEN [result EXCEPT !.status = "KeyError"]
                        ELSE [status |-> "returned",
                              high_tides_df |-> sort_values(df, highs),
                              low_tides_df |-> sort_values(df, lows)]
    /\ pc' = "done"
    /\ UNCHANGED <<df, gap_hours, tolerance_hours, anchor_path, main_high,
                   main_low, H2, L3, L_minus1, H_minus2, L_minus3, call>>

Next == SelectAnchor \/ ExtendForward \/ ExtendBackward \/ Assemble

Spec == Init /\ [][Next]_vars

\* ---- a lone call of get_extreme_in_window, any arguments ----
FindInit ==
    /\ df \in Frames(MaxFindLen, FindValues, 0)
    /\ gap_hours \in 0..MaxGap
    /\ tolerance_hours \in 0..MaxTol
    /\ pc = "find"
    /\ anchor_path = "none"
    /\ main_high = NoneRow
    /\ main_low = NoneRow
    /\ H2 = NoneRow
    /\ L3 = NoneRow
    /\ L_minus1 = NoneRow
    /\ H_minus2 = NoneRow
    /\ L_minus3 = NoneRow
    /\ high_tides = <<>>
    /\ low_tides = <<>>
    /\ result = NoResult
    /\ call = NoCall

GetExtremeInWindow ==
    /\ pc = "find"
    /\ ~call.made
    /\ \E base_time \in Times, direction \in Directions, tide_type \in TideTypes :
          call' = [made |-> TRUE, base_time |-> base_time,
                   direction |-> direction, tide_type |-> tide_type,
                   extreme_row |-> get_extreme_in_window(df, base_time,
                       direction, tide_type, gap_hours, tolerance_hours)]
    /\ UNCHANGED <<df, gap_hours, tolerance_hours, chainVars>>

FindNext == GetExtremeInWindow

FindSpec == FindInit /\ [][FindNext]_vars

\* ======================= claims on get_extreme_in_window ==================
ValidCall ==
    /\ call.made
    /\ call.direction \in {"forward", "backward"}
    /\ call.tide_type \in {"high", "low"}

\* the closed window of the call, written out from the claim
CallWindowLo ==
    IF call.direction = "forward"
    THEN call.base_time + (gap_hours - tolerance_hours)
    ELSE call.base_time - (gap_hours + tolerance_hours)

CallWindowHi ==
    IF call.direction = "forward"
    THEN call.base_time + (gap_hours + tolerance_hours)
    ELSE call.base_time - (gap_hours - tolerance_hours)

CallInWindow == {i \in DOMAIN df : CallWindowLo <= df[i].t /\ df[i].t <= CallWindowHi}

\* C2 (as claimed): every call whose direction is not forward/backward or
\* whose tide_type is not high/low raises ValueError, whatever the window
\* holds; it returns neither a row nor None.
C2_InvalidArgumentAlwaysRaises ==
    (/\ call.made
     /\ \/ call.direction \notin {"forward", "backward"}
        \/ call.tide_type \notin {"high", "low"})
    => call.extreme_row = RaisedValueError

\* C4: for the four valid direction/tide_type combinations a row is returned
\* exactly when some row's Date Time lies in the closed window, and the
\* returned row's Date Time lies in that window.
C4_ResultIffWindowNonEmpty ==
    ValidCall =>
        /\ call.extreme_row \in DOMAIN df \cup {NoneRow}
        /\ (call.extreme_row # NoneRow) <=> (CallInWindow # {})
        /\ call.extreme_row # NoneRow => call.extreme_row \in CallInWindow

\* C4 witness: the only row in the window sits on the window's end, which
\* differs from the window's start, and it is returned.
C4_Witness ==
    /\ ValidCall
    /\ tolerance_hours >= 1
    /\ call.extreme_row \in DOMAIN df
    /\ df[call.extreme_row].t = CallWindowHi
    /\ \A i \in CallInWindow : df[i].t = CallWindowHi

\* C5: with a row in the window, the returned row has the maximum value
\* (high) or the minimum value (low) of the rows in the window, and of the
\* rows in the window that share this value none is earlier, in Date Time or
\* in the frame's order.
C5_ExtremeWithEarliestTie ==
    (ValidCall /\ CallInWindow # {}) =>
        LET r == call.extreme_row
        IN  /\ r \in CallInWindow
            /\ \A j \in CallInWindow :
                  /\ call.tide_type = "high" => df[j].v <= df[r].v
                  /\ call.tide_type = "low" => df[j].v >= df[r].v
                  /\ df[j].v = df[r].v => (df[r].t <= df[j].t /\ r <= j)

\* C5 witness: a high call whose window holds the maximum at two different
\* Date Times, and a lower value too.
C5_Witness ==
    /\ ValidCall
    /\ call.tide_type = "high"
    /\ call.extreme_row \in CallInWindow
    /\ \E j \in CallInWindow : /\ df[j].v = df[call.extreme_row].v
                               /\ df[j].t > df[call.extreme_row].t
    /\ \E j \in CallInWindow : df[j].v < df[call.extreme_row].v

\* ========================= claims on select_tide_chain ====================
T(i) == df[i].t
V(i) == df[i].v

\* the windows and extremes of the claims, written out from their text
FwdWindow(i) ==
    {j \in DOMAIN df : /\ T(i) + (gap_hours - tolerance_hours) <= T(j)
                       /\ T(j) <= T(i) + (gap_hours + tolerance_hours)}

BwdWindow(i) ==
    {j \in DOMAIN df : /\ T(i) - (gap_hours + tolerance_hours) <= T(j)
                       /\ T(j) <= T(i) - (gap_hours - tolerance_hours)}

IsLowOf(r, w) ==
    IF w = {} THEN r = NoneRow ELSE r \in w /\ \A j \in w : V(r) <= V(j)

Present(events) == {events[k] : k \in DOMAIN events} \ {NoneRow}

StrictlyAscending(rows) ==
    \A a, b \in DOMAIN rows : a < b => T(rows[a]) < T(rows[b])

ChainEnded == pc \in {"assemble", "done"} /\ main_high # NoneRow

\* C1 (as claimed): with gap_hours > tolerance_hours every non-empty series
\* yields a returned chain; with no low found the chain has lows = [], and
\* one sample alone yields highs = [that sample], lows = [].
C1_NonEmptySeriesYieldsChain ==
    (pc = "done" /\ Len(df) >= 1 /\ gap_hours > tolerance_hours) =>
        /\ result.status = "returned"
        /\ (main_low = NoneRow /\ L_minus1 = NoneRow)
              => result.low_tides_df = <<>>
        /\ Len(df) = 1 => (/\ result.high_tides_df = <<1>>
                           /\ result.low_tides_df = <<>>)

\* C3 (as claimed): for every gap_hours and tolerance_hours the returned
\* highs and the returned lows are each strictly ascending in Date Time.
C3_AlwaysStrictlyAscending ==
    result.status = "returned" =>
        /\ StrictlyAscending(result.high_tides_df)
        /\ StrictlyAscending(result.low_tides_df)

\* C3 (amended): whenever gap_hours > tolerance_hours, the returned highs and
\* the returned lows are each strictly ascending in Date Time.
C3_StrictlyAscendingWhenGapExceedsTolerance ==
    (result.status = "returned" /\ gap_hours > tolerance_hours) =>
        /\ StrictlyAscending(result.high_tides_df)
        /\ StrictlyAscending(result.low_tides_df)

\* C3 witness: a returned chain of two highs and three lows, gap > tolerance.
C3_Witness ==
    /\ result.status = "returned"
    /\ gap_hours > tolerance_hours
    /\ Len(result.high_tides_df) = 2
    /\ Len(result.low_tides_df) = 3

\* the pairing rule with the claim's tolerance: 1e-6, absolute
PairsWithinAbsoluteTolerance(i) ==
    LET low == candidate_low(df, i, gap_hours, tolerance_hours)
    IN  low # NoneRow /\ Abs(V(low) - absolute_low(df)) <= ATolMicro

\* C6 (as claimed, for gap_hours > tolerance_hours): on the pairing path
\* main_low is within 1e-6 of the absolute low and no sample of greater value
\* than main_high pairs within 1e-6; the fallback path is taken only when no
\* sample pairs within 1e-6.
C6_PairingWithinAbsoluteTolerance ==
    (pc # "anchor" /\ Len(df) >= 1 /\ gap_hours > tolerance_hours) =>
        /\ anchor_path = "paired" =>
              /\ main_low # NoneRow
              /\ Abs(V(main_low) - absolute_low(df)) <= ATolMicro
              /\ \A j \in DOMAIN df :
                    V(j) > V(main_high) => ~PairsWithinAbsoluteTolerance(j)
        /\ anchor_path = "fallback" =>
              \A j \in DOMAIN df : ~PairsWithinAbsoluteTolerance(j)

\* C7: on a non-empty series the anchor selection yields a main_high; on the
\* fallback path no sample has a greater value than main_high and main_low is
\* the low of main_high's forward window, None when that window is empty.
C7_MainHighAlwaysSelected ==
    (pc # "anchor" /\ Len(df) >= 1) =>
        /\ main_high \in DOMAIN df
        /\ anchor_path = "fallback" =>
              /\ \A j \in DOMAIN df : V(j) <= V(main_high)
              /\ IsLowOf(main_low, FwdWindow(main_high))

\* C7 witness: the fallback path, with a main_low and a sample of lower value.
C7_Witness ==
    /\ pc = "done"
    /\ anchor_path = "fallback"
    /\ main_low # NoneRow
    /\ \E j \in DOMAIN df : V(j) < V(main_high)

C9_EmptySeriesFails ==
    (Len(df) = 0 /\ pc # "anchor") =>
        /\ pc = "done"
        /\ result.status = "IndexError"
        /\ result.high_tides_df = <<>>
        /\ result.low_tides_df = <<>>

\* C9 witness: the call on the empty series has ended.
C9_Witness == Len(df) = 0 /\ pc = "done" /\ result.status # "pending"

Chain == <<L_minus3, H_minus2, L_minus1, main_high, main_low, H2, L3>>
Found == SelectSeq(Chain, LAMBDA e : e # NoneRow)

\* C10: with gap_hours > tolerance_hours >= 0 the hops found are, in the
\* order L_minus3, H_minus2, L_minus1, main_high, L1, H2, L3, a run without
\* holes; consecutive ones lie gap-tolerance to gap+tolerance hours apart; no
\* sample is found twice; in a returned chain a low lies between any two
\* highs and a high between any two lows.
C10_AlternatingChain ==
    (ChainEnded /\ gap_hours > tolerance_hours /\ tolerance_hours >= 0) =>
        /\ \A k \in 1..(Len(Found) - 1) :
              /\ T(Found[k + 1]) - T(Found[k]) >= gap_hours - tolerance_hours
              /\ T(Found[k + 1]) - T(Found[k]) <= gap_hours + tolerance_hours
        /\ \A a, b, c \in DOMAIN Chain :
              (a < b /\ b < c /\ Chain[a] # NoneRow /\ Chain[c] # NoneRow)
                 => Chain[b] # NoneRow
        /\ \A a, b \in DOMAIN Found : a # b => Found[a] # Found[b]
        /\ result.status = "returned" =>
              LET hs == result.high_tides_df
                  ls == result.low_tides_df
              IN  /\ \A a, b \in DOMAIN hs : a < b =>
                        \E k \in DOMAIN ls : /\ T(hs[a]) < T(ls[k])
                                             /\ T(ls[k]) < T(hs[b])
                  /\ \A a, b \in DOMAIN ls : a < b =>
                        \E k \in DOMAIN hs : /\ T(ls[a]) < T(hs[k])
                                             /\ T(hs[k]) < T(ls[b])

\* C10 witness: a returned chain of five hops, with a tolerance of an hour.
C10_Witness ==
    /\ pc = "done"
    /\ result.status = "returned"
    /\ gap_hours > tolerance_hours
    /\ tolerance_hours >= 1
    /\ Len(Found) = 5

\* C10, second half: with gap_hours <= tolerance_hours one sample can be
\* found for more than one hop (a reachable state, not an invariant).
C10_SameSampleTwice ==
    /\ pc = "done"
    /\ gap_hours <= tolerance_hours
    /\ \E a, b \in DOMAIN Found : a # b /\ Found[a] = Found[b]
====
